---- MODULE Spec2Model ----
(***************************************************************************)
(* TriangleApp (src/main.cpp): bring-up of the Vulkan object graph         *)
(* (window, instance, surface, debug messenger, physical device, logical   *)
(* device, swap chain, image views), the event loop and cleanup().         *)
(*                                                                         *)
(* The graphics runtime and the window host are the environment: what they *)
(* report is the record `host`, fixed for one execution; whether a create  *)
(* call succeeds is decided when the call is made.                         *)
(***************************************************************************)
EXTENDS Integers, Sequences, FiniteSets, TLC

VARIABLES
    host,                   \* what the runtime and the window host report
    NDEBUG,                 \* whether the build defines NDEBUG (a release build)
    enableValidationLayers, \* main.cpp:109-113, fixed by the build
    pc,                     \* position in main()/run()
    glfw,                   \* the window-host runtime (glfwInit/glfwTerminate)
    window,
    instance,
    debugMessenger,
    physicalDevice,         \* index into host.devices, 0 = VK_NULL_HANDLE
    logicalDevice,
    graphicsQueue,
    presentQueue,
    surface,
    swapChain,
    swapChainImages,
    swapChainImageViews,
    swapChainImageFormat,
    swapChainExtent,
    instanceCreateInfo,     \* VkInstanceCreateInfo handed to vkCreateInstance
    queueCreateInfos,       \* VkDeviceQueueCreateInfo records handed to vkCreateDevice
    swapchainCreateInfo,    \* VkSwapchainCreateInfoKHR handed to vkCreateSwapchainKHR
    viewIndex,              \* loop counter of createImageView() / cleanup()
    calls,                  \* create and destroy calls issued so far, in order
    errorMessage,           \* what main() wrote to standard error
    exitCode,               \* main()'s return value, meaningful when pc = "exit"
    cleanupRuns             \* how many times cleanup() has been entered

vars == <<host, NDEBUG, enableValidationLayers, pc, glfw, window, instance, debugMessenger,
          physicalDevice, logicalDevice, graphicsQueue, presentQueue, surface,
          swapChain, swapChainImages, swapChainImageViews, swapChainImageFormat,
          swapChainExtent, instanceCreateInfo, queueCreateInfos, swapchainCreateInfo,
          viewIndex, calls, errorMessage, exitCode, cleanupRuns>>

----------------------------------------------------------------------------
(* Program constants *)

UINT8_RANGE == 256
EXIT_SUCCESS == 0
EXIT_FAILURE == 1
VK_NULL_HANDLE == 0
nullopt == -1
DiscreteBonus == 1000

ValidationLayer == "VK_LAYER_KHRONOS_validation"
validationLayers == <<ValidationLayer>>
SwapchainExtension == "VK_KHR_swapchain"
deviceExtensions == <<SwapchainExtension>>

PreferredFormat == [format |-> "B8G8R8A8_SRGB", colorSpace |-> "SRGB_NONLINEAR"]

(* Bounds of the model *)
MaxFormats == 2
MaxPresentModes == 2
MaxFamilies == 3
MaxExtraImages == 1
MaxCleanupRuns == 2

----------------------------------------------------------------------------
(* Helpers *)

SeqsUpTo(S, n) == UNION {[1..k -> S] : k \in 0..n}

Range(s) == {s[i] : i \in 1..Len(s)}

Min(a, b) == IF a < b THEN a ELSE b
Max(a, b) == IF a > b THEN a ELSE b

(* uint32_t. TLC's integers are 32-bit signed, so a uint32_t is held as two
   16-bit limbs: the value of u is u.hi * 2^16 + u.lo. *)
Limb == 2^16

\* static_cast<uint32_t>(n) of an int n (two's complement for n < 0)
U32(n) == [hi |-> (n \div Limb) % Limb, lo |-> n % Limb]

UINT32_MAX == [hi |-> Limb - 1, lo |-> Limb - 1]

\* a + b in uint32_t arithmetic (modulo 2^32)
U32Add(a, b) ==
    [hi |-> (a.hi + b.hi + ((a.lo + b.lo) \div Limb)) % Limb, lo |-> (a.lo + b.lo) % Limb]

U32Lt(a, b) == a.hi < b.hi \/ (a.hi = b.hi /\ a.lo < b.lo)
U32Le(a, b) == a = b \/ U32Lt(a, b)

\* a uint32_t stored in an int (two's complement)
ToInt32(u) == (IF u.hi >= Limb \div 2 THEN u.hi - Limb ELSE u.hi) * Limb + u.lo

\* the value of a uint32_t below 2^31 as a number
ToNat(u) == u.hi * Limb + u.lo

\* std::clamp(v, lo, hi) on uint32_t as libstdc++ computes it: min(max(v, lo), hi).
\* For lo <= hi this is the value the standard defines.
clamp(v, lo, hi) ==
    LET m == IF U32Lt(v, lo) THEN lo ELSE v
    IN IF U32Lt(hi, m) THEN hi ELSE m

\* std::clamp's precondition: hi is not below lo
clampDefined(lo, hi) == ~U32Lt(hi, lo)

\* what std::clamp(v, lo, hi) can return.  With hi < lo the behaviour is
\* undefined: the min(max()) form returns hi, the form
\* (v < lo) ? lo : (hi < v) ? hi : v returns lo for v < lo and hi otherwise
\* (a library built with assertions aborts instead, see CreateSwapChain).
clampResults(v, lo, hi) ==
    IF clampDefined(lo, hi) THEN {clamp(v, lo, hi)}
    ELSE {clamp(v, lo, hi), IF U32Lt(v, lo) THEN lo ELSE hi}

Call(fn, obj, idx, was) == [fn |-> fn, obj |-> obj, idx |-> idx, was |-> was]

----------------------------------------------------------------------------
(* The environment: what the graphics runtime and the window host report.   *)
(* Hosts is a default host varied along one axis at a time.                 *)

SurfaceFormats ==
    { PreferredFormat,
      [format |-> "B8G8R8A8_SRGB",  colorSpace |-> "DISPLAY_P3_NONLINEAR"],
      [format |-> "B8G8R8A8_UNORM", colorSpace |-> "SRGB_NONLINEAR"],
      [format |-> "R8G8B8A8_UNORM", colorSpace |-> "DISPLAY_P3_NONLINEAR"] }

PresentModes == {"IMMEDIATE", "MAILBOX", "FIFO", "FIFO_RELAXED"}

QueueFamilies == [graphics : BOOLEAN, present : BOOLEAN]

DefaultDevice ==
    [ deviceType |-> "DISCRETE_GPU",
      maxImageDimension2D |-> U32(4096),
      queueFamilies |-> <<[graphics |-> TRUE, present |-> TRUE]>>,
      extensions |-> {SwapchainExtension} ]

Extent(w, h) == [width |-> w, height |-> h]

DefaultCapabilities ==
    [ minImageCount |-> U32(2),
      maxImageCount |-> U32(0),
      currentExtent |-> Extent(U32(2), U32(2)),
      minImageExtent |-> Extent(U32(1), U32(1)),
      maxImageExtent |-> Extent(U32(3), U32(3)) ]

DefaultSupport ==
    [ capabilities |-> DefaultCapabilities,
      formats |-> <<PreferredFormat>>,
      presentModes |-> <<"FIFO">> ]

DefaultHost ==
    [ layers |-> {ValidationLayer},
      glfwExtensions |-> <<"VK_KHR_surface", "VK_EXT_metal_surface">>,
      devices |-> <<DefaultDevice>>,
      atSelection |-> DefaultSupport,   \* querySwapChainSupport() in isDeviceSuitable()
      atCreation |-> DefaultSupport,    \* querySwapChainSupport() in createSwapChain()
      framebuffer |-> [width |-> 2, height |-> 2],  \* glfwGetFramebufferSize(), two ints
      extraImages |-> 0 ]               \* images the swap chain holds beyond those requested

HostsLayers ==
    { [DefaultHost EXCEPT !.layers = l] : l \in {{}, {"VK_LAYER_LUNARG_api_dump"}} }

DeviceTypes == {"DISCRETE_GPU", "INTEGRATED_GPU"}
\* 2147482648 = 2^31 - 1000: the least limit at which 1000 + limit leaves the int range
ImageDimensions == {U32(0), U32(4096), U32(2147482648), UINT32_MAX}

HostsDevices ==
    { [DefaultHost EXCEPT !.devices = <<>>] }
    \cup { [DefaultHost EXCEPT !.devices = <<[DefaultDevice EXCEPT !.queueFamilies = q]>>] :
             q \in SeqsUpTo(QueueFamilies, MaxFamilies) }
    \cup { [DefaultHost EXCEPT !.devices = <<[DefaultDevice EXCEPT !.extensions = {}]>>] }
    \cup { [DefaultHost EXCEPT !.devices =
               << [DefaultDevice EXCEPT !.deviceType = t1, !.maxImageDimension2D = d1],
                  [DefaultDevice EXCEPT !.deviceType = t2, !.maxImageDimension2D = d2,
                                        !.queueFamilies = q] >>] :
             t1 \in DeviceTypes, t2 \in DeviceTypes,
             d1 \in ImageDimensions, d2 \in ImageDimensions,
             q \in { <<[graphics |-> TRUE, present |-> TRUE]>>,
                     <<[graphics |-> TRUE, present |-> FALSE]>> } }

\* The format list, the same at both queries or changed between them.
HostsFormats ==
    { [DefaultHost EXCEPT !.atSelection.formats = f, !.atCreation.formats = f] :
        f \in SeqsUpTo(SurfaceFormats, MaxFormats) }
    \cup { [DefaultHost EXCEPT !.atCreation.formats = f] :
        f \in SeqsUpTo(SurfaceFormats, MaxFormats) }

HostsPresentModes ==
    { [DefaultHost EXCEPT !.atSelection.presentModes = m, !.atCreation.presentModes = m] :
        m \in SeqsUpTo(PresentModes, MaxPresentModes) }
    \cup { [DefaultHost EXCEPT !.atCreation.presentModes = m] :
        m \in SeqsUpTo(PresentModes, MaxPresentModes) }

MinImageCounts == {U32(1), U32(2), U32(3), U32(UINT8_RANGE - 1), UINT32_MAX}
MaxImageCounts == {U32(n) : n \in 0..4}

HostsImageCounts ==
    { [DefaultHost EXCEPT !.atCreation.capabilities.minImageCount = lo,
                          !.atCreation.capabilities.maxImageCount = hi,
                          !.extraImages = x] :
        lo \in MinImageCounts, hi \in MaxImageCounts, x \in 0..MaxExtraImages }

ExtentLimits == {U32(1), U32(3)}
CurrentExtents == {U32(2), U32(5), UINT32_MAX}
FramebufferSizes == {-1, 0, 2, 5}

HostsExtents ==
    { [DefaultHost EXCEPT !.atCreation.capabilities.currentExtent = Extent(cw, ch),
                          !.atCreation.capabilities.minImageExtent = Extent(lw, lh),
                          !.atCreation.capabilities.maxImageExtent = Extent(hw, hh),
                          !.framebuffer = [width |-> fw, height |-> fh]] :
        cw \in CurrentExtents, ch \in CurrentExtents,
        lw \in ExtentLimits, lh \in ExtentLimits,
        hw \in ExtentLimits, hh \in ExtentLimits,
        fw \in FramebufferSizes, fh \in FramebufferSizes }

\* glfwGetFramebufferSize is called only when currentExtent.width is UINT32_MAX:
\* for any other width one framebuffer size stands for all
WellFormed(h) ==
    LET c == h.atCreation.capabilities IN
        c.currentExtent.width # UINT32_MAX => h.framebuffer = DefaultHost.framebuffer

Hosts ==
    { h \in HostsLayers \cup HostsDevices \cup HostsFormats \cup HostsPresentModes
              \cup HostsImageCounts \cup HostsExtents : WellFormed(h) }

----------------------------------------------------------------------------
(* Pure functions of TriangleApp *)

NoIndices == [graphicsFamily |-> nullopt, presentFamily |-> nullopt]

\* QueueFamilyIndices::isComplete
isComplete(indices) ==
    indices.graphicsFamily # nullopt /\ indices.presentFamily # nullopt

\* vkGetPhysicalDeviceSurfaceSupportKHR(physicalDevice, i, surface, &presentSupport)
presentSupport(physDev, i) ==
    i + 1 <= Len(physDev.queueFamilies) /\ physDev.queueFamilies[i + 1].present

RECURSIVE walkQueueFamilies(_, _, _, _)
walkQueueFamilies(queueFamilies, physDev, i, indices) ==
    IF i >= Len(queueFamilies) THEN indices
    ELSE LET next == [ graphicsFamily |-> IF queueFamilies[i + 1].graphics
                                            THEN i ELSE indices.graphicsFamily,
                       presentFamily  |-> IF presentSupport(physDev, i)
                                            THEN i ELSE indices.presentFamily ]
         IN IF isComplete(next) THEN next
            ELSE walkQueueFamilies(queueFamilies, physDev, i + 1, next)

\* mutant: each field keeps the first family that qualifies and the walk never stops early
findQueueFamiliesFirst(device, physDev) ==
    LET n == Len(device.queueFamilies)
        G == {i \in 0..(n - 1) : device.queueFamilies[i + 1].graphics}
        P == {i \in 0..(n - 1) : presentSupport(physDev, i)}
    IN [ graphicsFamily |-> IF G = {} THEN nullopt ELSE CHOOSE i \in G : \A j \in G : i <= j,
         presentFamily  |-> IF P = {} THEN nullopt ELSE CHOOSE i \in P : \A j \in P : i <= j ]

\* findQueueFamilies(device); presentation support is asked of the member physicalDevice
findQueueFamilies(device, physDev) ==
    walkQueueFamilies(device.queueFamilies, physDev, 0, NoIndices)

\* rateDeviceSuitability: int score, += 1000, += uint32_t limit
rateDeviceSuitability(device) ==
    LET score == IF device.deviceType = "DISCRETE_GPU" THEN DiscreteBonus ELSE 0
    IN ToInt32(U32Add(U32(score), device.maxImageDimension2D))

\* checkDeviceExtensionSupport
checkDeviceExtensionSupport(device) ==
    Range(deviceExtensions) \ device.extensions = {}

\* isDeviceSuitable(device), with the support details the runtime reports at that query
isDeviceSuitable(device, physDev, support) ==
    LET indices == findQueueFamilies(device, physDev)
        extensionsSupported == checkDeviceExtensionSupport(device)
        swapChainAdequate == extensionsSupported /\ support.formats # <<>>
                                 /\ support.presentModes # <<>>
    IN isComplete(indices) /\ extensionsSupported /\ swapChainAdequate

\* mutant: the first enumerated device is taken, whatever the scores
bestCandidateFirst(devices) == 1

\* candidates.rbegin() of the multimap keyed by score: the highest score, and among
\* equal scores the device inserted last
bestCandidate(devices) ==
    CHOOSE i \in 1..Len(devices) :
        \A j \in 1..Len(devices) :
            \/ rateDeviceSuitability(devices[j]) < rateDeviceSuitability(devices[i])
            \/ (rateDeviceSuitability(devices[j]) = rateDeviceSuitability(devices[i]) /\ j <= i)

\* mutant: any available layer counts as the requested one
checkValidationLayerSupportAny(availableLayers) == availableLayers # {}

\* checkValidationLayerSupport
checkValidationLayerSupport(availableLayers) ==
    \A k \in 1..Len(validationLayers) : validationLayers[k] \in availableLayers

\* mutant: the debug-utils extension is requested in every build
getRequiredExtensionsDebug(glfwExtensions, validation) ==
    glfwExtensions \o <<"VK_KHR_portability_enumeration", "VK_EXT_debug_utils">>

\* getRequiredExtensions
getRequiredExtensions(glfwExtensions, validation) ==
    glfwExtensions \o <<"VK_KHR_portability_enumeration">>
        \o (IF validation THEN <<"VK_EXT_debug_utils">> ELSE <<>>)

\* mutant: the preferred format is not looked for
chooseSwapSurfaceFormatFirst(availableFormats) == availableFormats[1]

\* chooseSwapSurfaceFormat on a non-empty list
chooseSwapSurfaceFormat(availableFormats) ==
    IF \E i \in 1..Len(availableFormats) : availableFormats[i] = PreferredFormat
    THEN availableFormats[CHOOSE i \in 1..Len(availableFormats) :
                              /\ availableFormats[i] = PreferredFormat
                              /\ \A j \in 1..(i - 1) : availableFormats[j] # PreferredFormat]
    ELSE availableFormats[1]

\* what chooseSwapSurfaceFormat can return: availableFormats[0] of an empty vector is
\* an out-of-bounds read, which yields any value
chooseSwapSurfaceFormatResults(availableFormats) ==
    IF availableFormats = <<>> THEN SurfaceFormats
    ELSE {chooseSwapSurfaceFormat(availableFormats)}

\* mutant: the first advertised mode is taken
chooseSwapPresentModeFirst(availablePresentModes) ==
    IF availablePresentModes # <<>> THEN availablePresentModes[1] ELSE "FIFO"

\* chooseSwapPresentMode
chooseSwapPresentMode(availablePresentModes) ==
    IF \E i \in 1..Len(availablePresentModes) : availablePresentModes[i] = "MAILBOX"
    THEN "MAILBOX"
    ELSE "FIFO"

\* mutant: the framebuffer size is not clamped
chooseSwapExtentUnclamped(capabilities, framebuffer) ==
    IF capabilities.currentExtent.width # UINT32_MAX
    THEN capabilities.currentExtent
    ELSE Extent(U32(framebuffer.width), U32(framebuffer.height))

\* chooseSwapExtent; framebuffer is what glfwGetFramebufferSize stores in two ints
chooseSwapExtent(capabilities, framebuffer) ==
    IF capabilities.currentExtent.width # UINT32_MAX
    THEN capabilities.currentExtent
    ELSE Extent(clamp(U32(framebuffer.width), capabilities.minImageExtent.width,
                      capabilities.maxImageExtent.width),
                clamp(U32(framebuffer.height), capabilities.minImageExtent.height,
                      capabilities.maxImageExtent.height))

\* std::clamp is called (lines 474-477) with limits that break its precondition
clampUndefined(capabilities) ==
    /\ capabilities.currentExtent.width = UINT32_MAX
    /\ ~(/\ clampDefined(capabilities.minImageExtent.width, capabilities.maxImageExtent.width)
         /\ clampDefined(capabilities.minImageExtent.height, capabilities.maxImageExtent.height))

\* what chooseSwapExtent can return
chooseSwapExtentResults(capabilities, framebuffer) ==
    IF ~clampUndefined(capabilities) THEN {chooseSwapExtent(capabilities, framebuffer)}
    ELSE { Extent(w, h) :
             w \in clampResults(U32(framebuffer.width), capabilities.minImageExtent.width,
                                capabilities.maxImageExtent.width),
             h \in clampResults(U32(framebuffer.height), capabilities.minImageExtent.height,
                                capabilities.maxImageExtent.height) }

\* mutant: maxImageCount is not looked at
requestedImageCountUnclamped(capabilities) ==
    U32Add(capabilities.minImageCount, U32(1))

\* createSwapChain, lines 235-241: the image count requested
requestedImageCount(capabilities) ==
    LET imageCount == U32Add(capabilities.minImageCount, U32(1))
    IN IF U32Lt(U32(0), capabilities.maxImageCount)
          /\ U32Lt(capabilities.maxImageCount, imageCount)
       THEN capabilities.maxImageCount
       ELSE imageCount

\* mutant: the sharing mode is exclusive whatever the families
imageSharingExclusive(indices) ==
    [ imageSharingMode |-> "EXCLUSIVE", queueFamilyIndices |-> <<>> ]

\* createSwapChain, lines 267-275: sharing mode and listed family indices
imageSharing(indices) ==
    IF indices.graphicsFamily # indices.presentFamily
    THEN [ imageSharingMode |-> "CONCURRENT",
           queueFamilyIndices |-> <<indices.graphicsFamily, indices.presentFamily>> ]
    ELSE [ imageSharingMode |-> "EXCLUSIVE", queueFamilyIndices |-> <<>> ]

\* mutant: one record per role, without the std::set
queueCreateInfosPerRole(indices) ==
    << [queueFamilyIndex |-> indices.graphicsFamily, queueCount |-> 1, queuePriority |-> "1.0f"],
       [queueFamilyIndex |-> indices.presentFamily, queueCount |-> 1, queuePriority |-> "1.0f"] >>

\* createLogicalDevice, lines 311-322: one record per element of the std::set, ascending
queueCreateInfosFor(indices) ==
    LET lo == Min(indices.graphicsFamily, indices.presentFamily)
        hi == Max(indices.graphicsFamily, indices.presentFamily)
        info(f) == [queueFamilyIndex |-> f, queueCount |-> 1, queuePriority |-> "1.0f"]
    IN IF lo = hi THEN <<info(lo)>> ELSE <<info(lo), info(hi)>>

\* createImageView, line 183: uint8_t imageCount = swapChainImages.size()
viewCount(size) == size % UINT8_RANGE

----------------------------------------------------------------------------
(* State *)

NoQueue == [queueFamilyIndex |-> nullopt, queueIndex |-> nullopt]

NoInstanceCreateInfo ==
    [ enabledExtensionNames |-> <<>>, enabledLayerNames |-> <<>>, pNext |-> "unset" ]

NoSwapchainCreateInfo ==
    [ minImageCount |-> U32(0), imageFormat |-> "unset", imageColorSpace |-> "unset",
      imageExtent |-> Extent(U32(0), U32(0)), presentMode |-> "unset",
      imageSharingMode |-> "unset", queueFamilyIndices |-> <<>> ]

NullView == [image |-> VK_NULL_HANDLE, format |-> "unset", state |-> "null"]

Init ==
    /\ host \in Hosts
    /\ NDEBUG \in BOOLEAN
    /\ enableValidationLayers = ~NDEBUG
    /\ pc = "initWindow"
    /\ glfw = "uninit"
    /\ window = "uninit"
    /\ instance = "uninit"
    /\ debugMessenger = "uninit"
    /\ physicalDevice = VK_NULL_HANDLE
    /\ logicalDevice = "uninit"
    /\ graphicsQueue = NoQueue
    /\ presentQueue = NoQueue
    /\ surface = "uninit"
    /\ swapChain = "uninit"
    /\ swapChainImages = <<>>
    /\ swapChainImageViews = <<>>
    /\ swapChainImageFormat = "unset"
    /\ swapChainExtent = Extent(U32(0), U32(0))
    /\ instanceCreateInfo = NoInstanceCreateInfo
    /\ queueCreateInfos = <<>>
    /\ swapchainCreateInfo = NoSwapchainCreateInfo
    /\ viewIndex = 0
    /\ calls = <<>>
    /\ errorMessage = ""
    /\ exitCode = EXIT_SUCCESS
    /\ cleanupRuns = 0

\* a runtime_error leaves run(); main() catches it, prints it and returns EXIT_FAILURE
Throw(message) ==
    /\ pc' = "exit"
    /\ errorMessage' = message
    /\ exitCode' = EXIT_FAILURE

Continue(next) ==
    /\ pc' = next
    /\ UNCHANGED <<errorMessage, exitCode>>

\* the process dies without returning from main()
Crash ==
    /\ pc' = "crashed"
    /\ UNCHANGED <<errorMessage, exitCode>>

----------------------------------------------------------------------------
(* Bring-up *)

\* initWindow: the results of glfwInit and glfwCreateWindow are not looked at
InitWindow ==
    /\ pc = "initWindow"
    /\ \E initOk \in BOOLEAN, windowOk \in BOOLEAN :
          /\ glfw' = IF initOk THEN "live" ELSE "uninit"
          /\ window' = IF initOk /\ windowOk THEN "live" ELSE "null"
          /\ calls' = calls
                \o (IF initOk THEN <<Call("create", "glfw", 0, glfw)>> ELSE <<>>)
                \o (IF initOk /\ windowOk THEN <<Call("create", "window", 0, window)>> ELSE <<>>)
    /\ Continue("createInstance")
    /\ UNCHANGED <<host, NDEBUG, enableValidationLayers, instance, debugMessenger,
                   physicalDevice, logicalDevice, graphicsQueue, presentQueue, surface,
                   swapChain, swapChainImages, swapChainImageViews,
                   swapChainImageFormat, swapChainExtent, instanceCreateInfo,
                   queueCreateInfos, swapchainCreateInfo, viewIndex, cleanupRuns>>

CreateInstance ==
    /\ pc = "createInstance"
    /\ IF enableValidationLayers /\ ~checkValidationLayerSupport(host.layers)
       THEN /\ Throw("Validation layers requested, but not available.")
            /\ UNCHANGED <<instance, instanceCreateInfo, calls>>
       ELSE /\ instanceCreateInfo' =
                  [ enabledExtensionNames |->
                        getRequiredExtensions(host.glfwExtensions, enableValidationLayers),
                    enabledLayerNames |->
                        IF enableValidationLayers THEN validationLayers ELSE <<>>,
                    pNext |-> IF enableValidationLayers THEN "debugCreateInfo" ELSE "nullptr" ]
            /\ \E ok \in BOOLEAN :
                  IF ok
                  THEN /\ instance' = "live"
                       /\ calls' = Append(calls, Call("create", "instance", 0, instance))
                       /\ Continue("createSurface")
                  ELSE /\ Throw("failed to create instance")
                       /\ UNCHANGED <<instance, calls>>
    /\ UNCHANGED <<host, NDEBUG, enableValidationLayers, glfw, window, debugMessenger,
                   physicalDevice, logicalDevice, graphicsQueue, presentQueue, surface,
                   swapChain, swapChainImages, swapChainImageViews,
                   swapChainImageFormat, swapChainExtent, queueCreateInfos,
                   swapchainCreateInfo, viewIndex, cleanupRuns>>

\* glfwCreateWindowSurface: with no window it reports an error or dereferences the
\* null window
CreateSurface ==
    /\ pc = "createSurface"
    /\ \E outcome \in (IF window = "live" THEN {"ok", "error"}
                       ELSE IF glfw = "live" THEN {"error", "crash"} ELSE {"error"}) :
          IF outcome = "ok"
          THEN /\ surface' = "live"
               /\ calls' = Append(calls, Call("create", "surface", 0, surface))
               /\ Continue("setupDebugMessenger")
          ELSE IF outcome = "error"
          THEN /\ surface' = "null"
               /\ Throw("Failed to create window surface")
               /\ UNCHANGED calls
          ELSE /\ Crash
               /\ UNCHANGED <<surface, calls>>
    /\ UNCHANGED <<host, NDEBUG, enableValidationLayers, glfw, window, instance, debugMessenger,
                   physicalDevice, logicalDevice, graphicsQueue, presentQueue,
                   swapChain, swapChainImages, swapChainImageViews,
                   swapChainImageFormat, swapChainExtent, instanceCreateInfo,
                   queueCreateInfos, swapchainCreateInfo, viewIndex, cleanupRuns>>

SetupDebugMessenger ==
    /\ pc = "setupDebugMessenger"
    /\ IF ~enableValidationLayers
       THEN /\ Continue("pickPhysicalDevice")
            /\ UNCHANGED <<debugMessenger, calls>>
       ELSE \E ok \in BOOLEAN :
               IF ok
               THEN /\ debugMessenger' = "live"
                    /\ calls' = Append(calls, Call("create", "debugMessenger", 0, debugMessenger))
                    /\ Continue("pickPhysicalDevice")
               ELSE /\ Throw("Failed to set up debug messenger")
                    /\ UNCHANGED <<debugMessenger, calls>>
    /\ UNCHANGED <<host, NDEBUG, enableValidationLayers, glfw, window, instance, physicalDevice,
                   logicalDevice, graphicsQueue, presentQueue, surface, swapChain,
                   swapChainImages, swapChainImageViews, swapChainImageFormat,
                   swapChainExtent, instanceCreateInfo, queueCreateInfos,
                   swapchainCreateInfo, viewIndex, cleanupRuns>>

PickPhysicalDevice ==
    /\ pc = "pickPhysicalDevice"
    /\ IF Len(host.devices) = 0
       THEN /\ Throw("Failed to find GPUs with Vulkan support")
            /\ UNCHANGED physicalDevice
       ELSE LET best == bestCandidate(host.devices) IN
            IF rateDeviceSuitability(host.devices[best]) > 0
            THEN /\ physicalDevice' = best
                 /\ IF isDeviceSuitable(host.devices[best], host.devices[best], host.atSelection)
                    THEN Continue("createLogicalDevice")
                    ELSE Throw("Failed to find a suitable GPU")
            ELSE /\ Throw("Failed to find a suitable GPU")
                 /\ UNCHANGED physicalDevice
    /\ UNCHANGED <<host, NDEBUG, enableValidationLayers, glfw, window, instance, debugMessenger,
                   logicalDevice, graphicsQueue, presentQueue, surface, swapChain,
                   swapChainImages, swapChainImageViews, swapChainImageFormat,
                   swapChainExtent, instanceCreateInfo, queueCreateInfos,
                   swapchainCreateInfo, viewIndex, calls, cleanupRuns>>

\* std::optional::value() on an empty optional throws bad_optional_access
CreateLogicalDevice ==
    /\ pc = "createLogicalDevice"
    /\ LET device == host.devices[physicalDevice]
           indices == findQueueFamilies(device, device)
       IN IF ~isComplete(indices)
          THEN /\ Throw("bad optional access")
               /\ UNCHANGED <<logicalDevice, graphicsQueue, presentQueue, queueCreateInfos, calls>>
          ELSE /\ queueCreateInfos' = queueCreateInfosFor(indices)
               /\ \E ok \in BOOLEAN :
                     IF ok
                     THEN /\ logicalDevice' = "live"
                          /\ graphicsQueue' = [queueFamilyIndex |-> indices.graphicsFamily,
                                               queueIndex |-> 0]
                          /\ presentQueue' = [queueFamilyIndex |-> indices.presentFamily,
                                              queueIndex |-> 0]
                          /\ calls' = Append(calls, Call("create", "logicalDevice", 0, logicalDevice))
                          /\ Continue("createSwapChain")
                     ELSE /\ Throw("Failed to create logical device")
                          /\ UNCHANGED <<logicalDevice, graphicsQueue, presentQueue, calls>>
    /\ UNCHANGED <<host, NDEBUG, enableValidationLayers, glfw, window, instance, debugMessenger,
                   physicalDevice, surface, swapChain, swapChainImages,
                   swapChainImageViews, swapChainImageFormat, swapChainExtent,
                   instanceCreateInfo, swapchainCreateInfo, viewIndex, cleanupRuns>>

CreateSwapChain ==
    /\ pc = "createSwapChain"
    /\ LET swapChainSupport == host.atCreation
           device == host.devices[physicalDevice]
           indices == findQueueFamilies(device, device)
           imageCount == requestedImageCount(swapChainSupport.capabilities)
       IN \E surfaceFormat \in chooseSwapSurfaceFormatResults(swapChainSupport.formats),
             extent \in chooseSwapExtentResults(swapChainSupport.capabilities, host.framebuffer),
             outcome \in {"ok", "error"}
                     \cup (IF swapChainSupport.formats = <<>> THEN {"crash"} ELSE {})
                     \cup (IF clampUndefined(swapChainSupport.capabilities)
                           THEN {"abort"} ELSE {}) :
            IF outcome = "crash"
            THEN /\ Crash
                 /\ UNCHANGED <<swapChain, swapChainImages, swapChainImageFormat,
                                swapChainExtent, swapchainCreateInfo, calls>>
            ELSE IF outcome = "abort"
            THEN /\ swapChainImageFormat' = surfaceFormat.format
                 /\ Crash
                 /\ UNCHANGED <<swapChain, swapChainImages, swapChainExtent,
                                swapchainCreateInfo, calls>>
            ELSE /\ swapChainImageFormat' = surfaceFormat.format
                 /\ swapChainExtent' = extent
                 /\ IF ~isComplete(indices)
                    THEN /\ Throw("bad optional access")
                         /\ UNCHANGED <<swapChain, swapChainImages, swapchainCreateInfo, calls>>
                    ELSE /\ swapchainCreateInfo' =
                               [ minImageCount |-> imageCount,
                                 imageFormat |-> surfaceFormat.format,
                                 imageColorSpace |-> surfaceFormat.colorSpace,
                                 imageExtent |-> extent,
                                 presentMode |-> chooseSwapPresentMode(swapChainSupport.presentModes),
                                 imageSharingMode |-> imageSharing(indices).imageSharingMode,
                                 queueFamilyIndices |-> imageSharing(indices).queueFamilyIndices ]
                         /\ IF outcome = "ok"
                            THEN /\ swapChain' = "live"
                                 /\ swapChainImages' = [i \in 1..(ToNat(imageCount) + host.extraImages) |-> i]
                                 /\ calls' = Append(calls, Call("create", "swapChain", 0, swapChain))
                                 /\ Continue("createImageView")
                            ELSE /\ Throw("Failed to create swap chain")
                                 /\ UNCHANGED <<swapChain, swapChainImages, calls>>
    /\ UNCHANGED <<host, NDEBUG, enableValidationLayers, glfw, window, instance, debugMessenger,
                   physicalDevice, logicalDevice, graphicsQueue, presentQueue, surface,
                   swapChainImageViews, instanceCreateInfo, queueCreateInfos, viewIndex,
                   cleanupRuns>>

\* createImageView, lines 183-184
CreateImageView ==
    /\ pc = "createImageView"
    /\ swapChainImageViews' = [i \in 1..viewCount(Len(swapChainImages)) |-> NullView]
    /\ viewIndex' = 0
    /\ Continue("createImageView.loop")
    /\ UNCHANGED <<host, NDEBUG, enableValidationLayers, glfw, window, instance, debugMessenger,
                   physicalDevice, logicalDevice, graphicsQueue, presentQueue, surface,
                   swapChain, swapChainImages, swapChainImageFormat, swapChainExtent,
                   instanceCreateInfo, queueCreateInfos, swapchainCreateInfo, calls,
                   cleanupRuns>>

\* createImageView, lines 186-210: one iteration; the loop bound is the uint8_t
\* imageCount, which is the size of swapChainImageViews. Leaving the loop returns
\* through the empty createGraphicsPipeline() to mainLoop().
CreateImageViewLoop ==
    /\ pc = "createImageView.loop"
    /\ IF viewIndex < Len(swapChainImageViews)
       THEN \E ok \in BOOLEAN :
               IF ok
               THEN /\ swapChainImageViews' =
                          [swapChainImageViews EXCEPT ![viewIndex + 1] =
                              [ image |-> swapChainImages[viewIndex + 1],
                                format |-> swapChainImageFormat,
                                state |-> "live" ]]
                    /\ calls' = Append(calls, Call("create", "imageView", viewIndex,
                                                   swapChainImageViews[viewIndex + 1].state))
                    /\ viewIndex' = viewIndex + 1
                    /\ Continue("createImageView.loop")
               ELSE /\ Throw("Failed to create image views")
                    /\ UNCHANGED <<swapChainImageViews, calls, viewIndex>>
       ELSE /\ Continue("mainLoop")
            /\ UNCHANGED <<swapChainImageViews, calls, viewIndex>>
    /\ UNCHANGED <<host, NDEBUG, enableValidationLayers, glfw, window, instance, debugMessenger,
                   physicalDevice, logicalDevice, graphicsQueue, presentQueue, surface,
                   swapChain, swapChainImages, swapChainImageFormat, swapChainExtent,
                   instanceCreateInfo, queueCreateInfos, swapchainCreateInfo, cleanupRuns>>

\* mainLoop: poll events until the window should close
MainLoop ==
    /\ pc = "mainLoop"
    /\ \E shouldClose \in BOOLEAN :
          Continue(IF shouldClose THEN "cleanup" ELSE "mainLoop")
    /\ UNCHANGED <<host, NDEBUG, enableValidationLayers, glfw, window, instance, debugMessenger,
                   physicalDevice, logicalDevice, graphicsQueue, presentQueue, surface,
                   swapChain, swapChainImages, swapChainImageViews,
                   swapChainImageFormat, swapChainExtent, instanceCreateInfo,
                   queueCreateInfos, swapchainCreateInfo, viewIndex, calls, cleanupRuns>>

----------------------------------------------------------------------------
(* cleanup(), one destroy call per step *)

Destroyed(was) == IF was = "live" THEN "destroyed" ELSE was

\* A destroy call on a live or null handle whose parent is live returns; on an
\* indeterminate or already destroyed handle, or with a parent that is not live,
\* anything happens.
DestroyOutcomes(was, parent) ==
    IF was \in {"uninit", "destroyed"} \/ parent # "live"
    THEN {"return", "crash"}
    ELSE {"return"}

\* cleanup, lines 650-652, through DestroyDebugUtilsMessengerEXT (lines 77-85):
\* func is whether vkGetInstanceProcAddr finds vkDestroyDebugUtilsMessengerEXT;
\* without it nothing is destroyed
DestroyDebugMessenger ==
    /\ pc = "cleanup"
    /\ cleanupRuns' = cleanupRuns + 1
    /\ viewIndex' = 0
    /\ IF enableValidationLayers
       THEN \E func \in BOOLEAN, outcome \in DestroyOutcomes(debugMessenger, instance) :
               IF ~func
               THEN /\ Continue("cleanup.imageViews")
                    /\ UNCHANGED <<debugMessenger, calls>>
               ELSE /\ calls' = Append(calls, Call("destroy", "debugMessenger", 0, debugMessenger))
                    /\ IF outcome = "return"
                       THEN /\ debugMessenger' = Destroyed(debugMessenger)
                            /\ Continue("cleanup.imageViews")
                       ELSE /\ Crash
                            /\ UNCHANGED debugMessenger
       ELSE /\ Continue("cleanup.imageViews")
            /\ UNCHANGED <<debugMessenger, calls>>
    /\ UNCHANGED <<host, NDEBUG, enableValidationLayers, glfw, window, instance, physicalDevice,
                   logicalDevice, graphicsQueue, presentQueue, surface, swapChain,
                   swapChainImages, swapChainImageViews, swapChainImageFormat,
                   swapChainExtent, instanceCreateInfo, queueCreateInfos,
                   swapchainCreateInfo>>

\* cleanup, lines 654-656: one iteration
DestroyImageViews ==
    /\ pc = "cleanup.imageViews"
    /\ IF viewIndex < Len(swapChainImageViews)
       THEN LET view == swapChainImageViews[viewIndex + 1] IN
            \E outcome \in DestroyOutcomes(view.state, logicalDevice) :
               /\ calls' = Append(calls, Call("destroy", "imageView", viewIndex, view.state))
               /\ IF outcome = "return"
                  THEN /\ swapChainImageViews' =
                             [swapChainImageViews EXCEPT ![viewIndex + 1].state =
                                 Destroyed(view.state)]
                       /\ viewIndex' = viewIndex + 1
                       /\ Continue("cleanup.imageViews")
                  ELSE /\ Crash
                       /\ UNCHANGED <<swapChainImageViews, viewIndex>>
       ELSE /\ Continue("cleanup.swapChain")
            /\ UNCHANGED <<swapChainImageViews, viewIndex, calls>>
    /\ UNCHANGED <<host, NDEBUG, enableValidationLayers, glfw, window, instance, debugMessenger,
                   physicalDevice, logicalDevice, graphicsQueue, presentQueue, surface,
                   swapChain, swapChainImages, swapChainImageFormat, swapChainExtent,
                   instanceCreateInfo, queueCreateInfos, swapchainCreateInfo, cleanupRuns>>

\* cleanup, line 657
DestroySwapchain ==
    /\ pc = "cleanup.swapChain"
    /\ \E outcome \in DestroyOutcomes(swapChain, logicalDevice) :
          /\ calls' = Append(calls, Call("destroy", "swapChain", 0, swapChain))
          /\ IF outcome = "return"
             THEN /\ swapChain' = Destroyed(swapChain)
                  /\ Continue("cleanup.logicalDevice")
             ELSE /\ Crash
                  /\ UNCHANGED swapChain
    /\ UNCHANGED <<host, NDEBUG, enableValidationLayers, glfw, window, instance, debugMessenger,
                   physicalDevice, logicalDevice, graphicsQueue, presentQueue, surface,
                   swapChainImages, swapChainImageViews, swapChainImageFormat,
                   swapChainExtent, instanceCreateInfo, queueCreateInfos,
                   swapchainCreateInfo, viewIndex, cleanupRuns>>

\* cleanup, line 658
DestroyDevice ==
    /\ pc = "cleanup.logicalDevice"
    /\ \E outcome \in DestroyOutcomes(logicalDevice, instance) :
          /\ calls' = Append(calls, Call("destroy", "logicalDevice", 0, logicalDevice))
          /\ IF outcome = "return"
             THEN /\ logicalDevice' = Destroyed(logicalDevice)
                  /\ Continue("cleanup.surface")
             ELSE /\ Crash
                  /\ UNCHANGED logicalDevice
    /\ UNCHANGED <<host, NDEBUG, enableValidationLayers, glfw, window, instance, debugMessenger,
                   physicalDevice, graphicsQueue, presentQueue, surface, swapChain,
                   swapChainImages, swapChainImageViews, swapChainImageFormat,
                   swapChainExtent, instanceCreateInfo, queueCreateInfos,
                   swapchainCreateInfo, viewIndex, cleanupRuns>>

\* cleanup, line 659
DestroySurface ==
    /\ pc = "cleanup.surface"
    /\ \E outcome \in DestroyOutcomes(surface, instance) :
          /\ calls' = Append(calls, Call("destroy", "surface", 0, surface))
          /\ IF outcome = "return"
             THEN /\ surface' = Destroyed(surface)
                  /\ Continue("cleanup.instance")
             ELSE /\ Crash
                  /\ UNCHANGED surface
    /\ UNCHANGED <<host, NDEBUG, enableValidationLayers, glfw, window, instance, debugMessenger,
                   physicalDevice, logicalDevice, graphicsQueue, presentQueue,
                   swapChain, swapChainImages, swapChainImageViews,
                   swapChainImageFormat, swapChainExtent, instanceCreateInfo,
                   queueCreateInfos, swapchainCreateInfo, viewIndex, cleanupRuns>>

\* cleanup, line 660
DestroyInstance ==
    /\ pc = "cleanup.instance"
    /\ \E outcome \in DestroyOutcomes(instance, "live") :
          /\ calls' = Append(calls, Call("destroy", "instance", 0, instance))
          /\ IF outcome = "return"
             THEN /\ instance' = Destroyed(instance)
                  /\ Continue("cleanup.window")
             ELSE /\ Crash
                  /\ UNCHANGED instance
    /\ UNCHANGED <<host, NDEBUG, enableValidationLayers, glfw, window, debugMessenger,
                   physicalDevice, logicalDevice, graphicsQueue, presentQueue, surface,
                   swapChain, swapChainImages, swapChainImageViews,
                   swapChainImageFormat, swapChainExtent, instanceCreateInfo,
                   queueCreateInfos, swapchainCreateInfo, viewIndex, cleanupRuns>>

\* cleanup, line 661: glfwDestroyWindow does nothing without the library or a window
DestroyWindow ==
    /\ pc = "cleanup.window"
    /\ \E outcome \in (IF glfw = "live" THEN DestroyOutcomes(window, glfw) ELSE {"return"}) :
          /\ calls' = Append(calls, Call("destroy", "window", 0, window))
          /\ IF outcome = "return"
             THEN /\ window' = IF glfw = "live" THEN Destroyed(window) ELSE window
                  /\ Continue("cleanup.terminate")
             ELSE /\ Crash
                  /\ UNCHANGED window
    /\ UNCHANGED <<host, NDEBUG, enableValidationLayers, glfw, instance, debugMessenger,
                   physicalDevice, logicalDevice, graphicsQueue, presentQueue, surface,
                   swapChain, swapChainImages, swapChainImageViews,
                   swapChainImageFormat, swapChainExtent, instanceCreateInfo,
                   queueCreateInfos, swapchainCreateInfo, viewIndex, cleanupRuns>>

\* cleanup, line 662; run() returns and main() returns EXIT_SUCCESS unless it has
\* caught an exception before
Terminate ==
    /\ pc = "cleanup.terminate"
    /\ calls' = Append(calls, Call("destroy", "glfw", 0, glfw))
    /\ glfw' = Destroyed(glfw)
    /\ pc' = "exit"
    /\ exitCode' = IF errorMessage = "" THEN EXIT_SUCCESS ELSE exitCode
    /\ UNCHANGED <<host, NDEBUG, enableValidationLayers, window, instance, debugMessenger,
                   physicalDevice, logicalDevice, graphicsQueue, presentQueue, surface,
                   swapChain, swapChainImages, swapChainImageViews,
                   swapChainImageFormat, swapChainExtent, instanceCreateInfo,
                   queueCreateInfos, swapchainCreateInfo, viewIndex, errorMessage,
                   cleanupRuns>>

Next ==
    \/ InitWindow
    \/ CreateInstance
    \/ CreateSurface
    \/ SetupDebugMessenger
    \/ PickPhysicalDevice
    \/ CreateLogicalDevice
    \/ CreateSwapChain
    \/ CreateImageView
    \/ CreateImageViewLoop
    \/ MainLoop
    \/ DestroyDebugMessenger
    \/ DestroyImageViews
    \/ DestroySwapchain
    \/ DestroyDevice
    \/ DestroySurface
    \/ DestroyInstance
    \/ DestroyWindow
    \/ Terminate

Spec == Init /\ [][Next]_vars

\* cleanup() invoked again by a caller after main() has its result: on the state a
\* failed bring-up left behind, or a second time
InvokeCleanup ==
    /\ pc = "exit"
    /\ cleanupRuns < MaxCleanupRuns
    /\ pc' = "cleanup"
    /\ UNCHANGED <<host, NDEBUG, enableValidationLayers, glfw, window, instance, debugMessenger,
                   physicalDevice, logicalDevice, graphicsQueue, presentQueue, surface,
                   swapChain, swapChainImages, swapChainImageViews,
                   swapChainImageFormat, swapChainExtent, instanceCreateInfo,
                   queueCreateInfos, swapchainCreateInfo, viewIndex, calls,
                   errorMessage, exitCode, cleanupRuns>>

NextTeardown == Next \/ InvokeCleanup

SpecTeardown == Init /\ [][NextTeardown]_vars

----------------------------------------------------------------------------
(* Observations used by the properties *)

Reverse(s) == [i \in 1..Len(s) |-> s[Len(s) + 1 - i]]

IsCreate(c) == c.fn = "create"
IsDestroy(c) == c.fn = "destroy"
IsView(c) == c.obj = "imageView"
IsMessenger(c) == c.obj = "debugMessenger"
IsRuntime(c) == c.obj = "glfw"

\* the objects named by a sequence of calls, in call order
Objects(s) == [i \in 1..Len(s) |-> [obj |-> s[i].obj, idx |-> s[i].idx]]

Object(name) == [obj |-> name, idx |-> 0]

DestroyCalls == Objects(SelectSeq(calls, IsDestroy))

\* the image views of the vector, in index order
ViewObjects == [i \in 1..Len(swapChainImageViews) |-> [obj |-> "imageView", idx |-> i - 1]]

Occurrences(s, x) == Cardinality({i \in 1..Len(s) : s[i] = x})

SomethingLive ==
    \/ glfw = "live" \/ window = "live" \/ instance = "live" \/ surface = "live"
    \/ debugMessenger = "live" \/ logicalDevice = "live" \/ swapChain = "live"
    \/ \E i \in 1..Len(swapChainImageViews) : swapChainImageViews[i].state = "live"

\* main() returned EXIT_FAILURE: a bring-up step threw
BringUpFailed == pc = "exit" /\ exitCode = EXIT_FAILURE

\* main() returned EXIT_SUCCESS: bring-up, event loop and cleanup() all ran
RunSucceeded == pc = "exit" /\ exitCode = EXIT_SUCCESS

\* createSwapChain() has filled in its create-info and called vkCreateSwapchainKHR
SwapChainRequested == swapchainCreateInfo # NoSwapchainCreateInfo

CreationCapabilities == host.atCreation.capabilities

----------------------------------------------------------------------------
(* C1 *)

\* C1: when a bring-up step fails, every object created before the failure (the
\* window and the image views 0..i-1 included) has been released by the time the
\* process exits.  The code does not do this: the exception leaves run() past
\* cleanup(), and main() only prints it.
C1_ReleasedOnFailure == BringUpFailed => ~SomethingLive

(* C2 *)

\* C2: after a successful run the destroy calls were issued in the order image
\* views, swap chain, logical device, messenger (validation only), surface,
\* instance, window, window-host runtime.  The code's cleanup() destroys the
\* messenger first, before the image views, or not at all when
\* vkDestroyDebugUtilsMessengerEXT is not found.
C2_OrderAsStated ==
    RunSucceeded =>
        DestroyCalls = ViewObjects
            \o <<Object("swapChain"), Object("logicalDevice")>>
            \o (IF enableValidationLayers THEN <<Object("debugMessenger")>> ELSE <<>>)
            \o <<Object("surface"), Object("instance"), Object("window"), Object("glfw")>>

(* C3 *)

IsEntity(c) == ~IsRuntime(c)

EntityCreates == Objects(SelectSeq(calls, LAMBDA c : IsCreate(c) /\ IsEntity(c)))
EntityDestroys == Objects(SelectSeq(calls, LAMBDA c : IsDestroy(c) /\ IsEntity(c)))

\* every entity that occurs in a create or destroy call occurs in exactly one of each
ExactlyOnce ==
    \A x \in Range(EntityCreates) \cup Range(EntityDestroys) :
        Occurrences(EntityCreates, x) = 1 /\ Occurrences(EntityDestroys, x) = 1

\* C3: on a successful run every entity is created exactly once and destroyed
\* exactly once, and the destroy order is the exact reverse of the create order.
\* In the code the messenger is never destroyed when
\* vkDestroyDebugUtilsMessengerEXT is not found (and the instance is then destroyed
\* under it); when it is destroyed it is destroyed first, and the image views are
\* destroyed in the order they were created.
C3_ExactReverse ==
    RunSucceeded => ExactlyOnce /\ EntityDestroys = Reverse(EntityCreates)

(* C4 *)

\* C4: cleanup() on any prefix of the bring-up issues destroy calls only for objects
\* that exist (never for a handle that was never created or is already destroyed),
\* leaves nothing live, and releases nothing again when invoked a second time.
\* The code's cleanup() destroys every handle unconditionally.
C4_TeardownIdempotent ==
    /\ \A i \in 1..Len(calls) :
          IsDestroy(calls[i]) /\ ~IsRuntime(calls[i]) =>
              calls[i].was \notin {"uninit", "destroyed"}
    /\ (pc = "exit" /\ cleanupRuns > 0 => ~SomethingLive)

(* C5 *)

\* C5: after a successful createImageView() there is one view per swap-chain image,
\* view i over image i, for every number of images.  The code counts the images in
\* a uint8_t, so from 256 images on views are missing.
C5_OneViewPerImage ==
    pc = "mainLoop" =>
        /\ Len(swapChainImageViews) = Len(swapChainImages)
        /\ \A i \in 1..Len(swapChainImages) :
              /\ swapChainImageViews[i].state = "live"
              /\ swapChainImageViews[i].image = swapChainImages[i]

(* C6 *)

\* C6 as stated: the requested image count is at least minImageCount + 1 and, when
\* maxImageCount > 0, at most maxImageCount.
C6_BoundsAsStated ==
    SwapChainRequested =>
        /\ U32Lt(CreationCapabilities.minImageCount, swapchainCreateInfo.minImageCount)
        /\ (U32Lt(U32(0), CreationCapabilities.maxImageCount) =>
               U32Le(swapchainCreateInfo.minImageCount, CreationCapabilities.maxImageCount))

\* C6 (amended): the requested image count is minImageCount + 1 in uint32_t
\* arithmetic (0 for minImageCount = UINT32_MAX), lowered to maxImageCount when
\* maxImageCount > 0 and the sum exceeds it.  So it is at most maxImageCount when
\* maxImageCount > 0; it is minImageCount + 1 when maxImageCount is 0 or exceeds
\* minImageCount; it is maxImageCount, below minImageCount + 1, when
\* 0 < maxImageCount <= minImageCount.  swapChainImages has that length when the
\* runtime returns exactly the requested number.
C6_RequestedImageCount ==
    SwapChainRequested =>
        LET lo == CreationCapabilities.minImageCount
            hi == CreationCapabilities.maxImageCount
            requested == swapchainCreateInfo.minImageCount
            bounded == U32Lt(U32(0), hi)
        IN /\ (bounded => U32Le(requested, hi))
           /\ (lo = UINT32_MAX => requested = U32(0))
           /\ (lo # UINT32_MAX /\ bounded /\ U32Le(hi, lo) => requested = hi)
           /\ (lo # UINT32_MAX /\ ~(bounded /\ U32Le(hi, lo)) =>
                  /\ U32Lt(lo, requested)
                  /\ ToNat(requested) = ToNat(lo) + 1)
           /\ (swapChain = "live" /\ host.extraImages = 0 =>
                  Len(swapChainImages) = ToNat(requested))

C6_Witness ==
    /\ swapChain = "live"
    /\ host.extraImages = 0
    /\ U32Lt(U32(0), CreationCapabilities.maxImageCount)
    /\ U32Le(CreationCapabilities.maxImageCount, CreationCapabilities.minImageCount)
    /\ Len(swapChainImages) = ToNat(CreationCapabilities.maxImageCount)

(* C7 *)

ExtentInRange(extent, capabilities) ==
    /\ U32Le(capabilities.minImageExtent.width, extent.width)
    /\ U32Le(extent.width, capabilities.maxImageExtent.width)
    /\ U32Le(capabilities.minImageExtent.height, extent.height)
    /\ U32Le(extent.height, capabilities.maxImageExtent.height)

\* C7 as stated: after a successful bring-up the stored extent lies between
\* minImageExtent and maxImageExtent in both dimensions, on both paths.
C7_ExtentInRangeAsStated ==
    pc = "mainLoop" => ExtentInRange(swapChainExtent, CreationCapabilities)

\* one dimension of a clamped extent: between the limits when they are ordered,
\* one of the two limits when they are not
Clamped(e, lo, hi) ==
    IF clampDefined(lo, hi) THEN U32Le(lo, e) /\ U32Le(e, hi) ELSE e \in {lo, hi}

\* C7 (amended): after a successful bring-up, if currentExtent.width is UINT32_MAX
\* the stored extent lies, in each dimension with minImageExtent <= maxImageExtent,
\* between the two limits (in a dimension with minImageExtent > maxImageExtent it
\* is one of the two limits); otherwise it is currentExtent unchanged, whether or
\* not that lies in the range.  It is the extent the swap chain was created with.
C7_ChosenExtent ==
    pc = "mainLoop" =>
        /\ swapchainCreateInfo.imageExtent = swapChainExtent
        /\ IF CreationCapabilities.currentExtent.width = UINT32_MAX
           THEN /\ Clamped(swapChainExtent.width, CreationCapabilities.minImageExtent.width,
                           CreationCapabilities.maxImageExtent.width)
                /\ Clamped(swapChainExtent.height, CreationCapabilities.minImageExtent.height,
                           CreationCapabilities.maxImageExtent.height)
                /\ (~clampUndefined(CreationCapabilities) =>
                       ExtentInRange(swapChainExtent, CreationCapabilities))
           ELSE swapChainExtent = CreationCapabilities.currentExtent

C7_Witness ==
    /\ pc = "mainLoop"
    /\ CreationCapabilities.currentExtent.width = UINT32_MAX
    /\ ExtentInRange(swapChainExtent, CreationCapabilities)
    /\ swapChainExtent.width # U32(host.framebuffer.width)
    /\ swapChainExtent.height = U32(host.framebuffer.height)

(* C8 *)

\* C8: for a non-empty advertised format list the surface format of the swap chain
\* is {B8G8R8A8_SRGB, SRGB_NONLINEAR} if the list contains it anywhere and the first
\* entry otherwise; its format is swapChainImageFormat and the format of every
\* image view created.
C8_SurfaceFormat ==
    SwapChainRequested /\ host.atCreation.formats # <<>> =>
        LET availableFormats == host.atCreation.formats
            chosen == [ format |-> swapchainCreateInfo.imageFormat,
                        colorSpace |-> swapchainCreateInfo.imageColorSpace ]
        IN /\ (PreferredFormat \in Range(availableFormats) => chosen = PreferredFormat)
           /\ (PreferredFormat \notin Range(availableFormats) => chosen = availableFormats[1])
           /\ swapChainImageFormat = chosen.format
           /\ \A i \in 1..Len(swapChainImageViews) :
                 swapChainImageViews[i].state # "null" =>
                     swapChainImageViews[i].format = chosen.format

C8_Witness ==
    /\ pc = "mainLoop"
    /\ Len(host.atCreation.formats) = 2
    /\ host.atCreation.formats[1] # PreferredFormat
    /\ host.atCreation.formats[1].format # PreferredFormat.format
    /\ host.atCreation.formats[2] = PreferredFormat
    /\ Len(swapChainImageViews) >= 2
    /\ swapChainImageViews[2].format = PreferredFormat.format

(* C9 *)

\* C9: the present mode of the swap chain is mailbox if mailbox is advertised and
\* FIFO otherwise, also when FIFO is not advertised; no other mode is ever chosen.
C9_PresentMode ==
    SwapChainRequested =>
        /\ ("MAILBOX" \in Range(host.atCreation.presentModes) =>
               swapchainCreateInfo.presentMode = "MAILBOX")
        /\ ("MAILBOX" \notin Range(host.atCreation.presentModes) =>
               swapchainCreateInfo.presentMode = "FIFO")

C9_Witness ==
    /\ swapChain = "live"
    /\ host.atCreation.presentModes # <<>>
    /\ "FIFO" \notin Range(host.atCreation.presentModes)
    /\ "MAILBOX" \notin Range(host.atCreation.presentModes)
    /\ swapchainCreateInfo.presentMode = "FIFO"

(* C10 *)

\* C10: createLogicalDevice() and createSwapChain() never read an empty
\* graphicsFamily or presentFamily; the families they read are a graphics-capable
\* and a presentation-capable family of the selected device; the swap chain is
\* created concurrent with both indices listed iff the two differ, and exclusive
\* with no index listed otherwise.
C10_FamiliesAndSharing ==
    /\ errorMessage # "bad optional access"
    /\ (logicalDevice # "uninit" =>
           LET families == host.devices[physicalDevice].queueFamilies
               g == graphicsQueue.queueFamilyIndex
               p == presentQueue.queueFamilyIndex
           IN /\ g \in 0..(Len(families) - 1) /\ families[g + 1].graphics
              /\ p \in 0..(Len(families) - 1) /\ families[p + 1].present)
    /\ (SwapChainRequested =>
           LET g == graphicsQueue.queueFamilyIndex
               p == presentQueue.queueFamilyIndex
           IN IF g # p
              THEN /\ swapchainCreateInfo.imageSharingMode = "CONCURRENT"
                   /\ swapchainCreateInfo.queueFamilyIndices = <<g, p>>
              ELSE /\ swapchainCreateInfo.imageSharingMode = "EXCLUSIVE"
                   /\ swapchainCreateInfo.queueFamilyIndices = <<>>)

C10_Witness ==
    /\ swapChain = "live"
    /\ graphicsQueue.queueFamilyIndex # presentQueue.queueFamilyIndex
    /\ swapchainCreateInfo.imageSharingMode = "CONCURRENT"
    /\ Len(swapchainCreateInfo.queueFamilyIndices) = 2

(* C11 *)

NoVulkanGPU == errorMessage = "Failed to find GPUs with Vulkan support"
NoSuitableGPU == errorMessage = "Failed to find a suitable GPU"

\* pickPhysicalDevice() has returned
PickSucceeded == physicalDevice # VK_NULL_HANDLE /\ ~NoSuitableGPU

\* pickPhysicalDevice() has run to its end, by return or by throw
PickRan == NoVulkanGPU \/ NoSuitableGPU \/ PickSucceeded

Scores == {rateDeviceSuitability(host.devices[i]) : i \in 1..Len(host.devices)}

TopScore == CHOOSE s \in Scores : \A t \in Scores : t <= s

Suitable(i) == isDeviceSuitable(host.devices[i], host.devices[i], host.atSelection)

\* C11: for an empty enumeration pickPhysicalDevice() fails with NoVulkanGPU; for a
\* non-empty one it fails with NoSuitableGPU exactly when the highest score is <= 0
\* or the highest-scoring device is not suitable (also when a lower-scoring device
\* is), and otherwise returns with a selected device that has the maximum score, a
\* positive one, and is suitable.
C11_PickPhysicalDevice ==
    PickRan =>
        /\ (NoVulkanGPU <=> host.devices = <<>>)
        /\ (host.devices # <<>> =>
               (NoSuitableGPU <=>
                    \/ TopScore <= 0
                    \/ ~Suitable(bestCandidate(host.devices))))
        /\ (PickSucceeded =>
               /\ physicalDevice \in 1..Len(host.devices)
               /\ rateDeviceSuitability(host.devices[physicalDevice]) = TopScore
               /\ TopScore > 0
               /\ Suitable(physicalDevice))

\* the top-scoring device is rejected although the other device is suitable
C11_Witness ==
    /\ NoSuitableGPU
    /\ Len(host.devices) = 2
    /\ TopScore > 0
    /\ rateDeviceSuitability(host.devices[1]) < rateDeviceSuitability(host.devices[2])
    /\ ~Suitable(2)
    /\ Suitable(1)
    /\ rateDeviceSuitability(host.devices[1]) > 0

(* C12 *)

\* two devices were enumerated, one discrete and one integrated, with the same
\* maxImageDimension2D
DiscreteAndIntegrated ==
    /\ Len(host.devices) = 2
    /\ {host.devices[1].deviceType, host.devices[2].deviceType} = DeviceTypes
    /\ host.devices[1].maxImageDimension2D = host.devices[2].maxImageDimension2D

\* C12: of a discrete and an integrated device with the same limit L,
\* pickPhysicalDevice() provisionally selects the discrete one, in both enumeration
\* orders and for every uint32_t value of L.  The code adds L to an int: from
\* L = 2^31 - 1000 on the discrete score 1000 + L wraps below the integrated
\* score L.
C12_DiscretePreferred ==
    physicalDevice # VK_NULL_HANDLE /\ DiscreteAndIntegrated =>
        host.devices[physicalDevice].deviceType = "DISCRETE_GPU"

(* C13 *)

\* createLogicalDevice() has built its queue-create records
QueuesRequested == queueCreateInfos # <<>>

RequestedFamilies == {queueCreateInfos[i].queueFamilyIndex : i \in 1..Len(queueCreateInfos)}

\* C13: createLogicalDevice() hands vkCreateDevice one queue-create record, with
\* queueCount 1 and priority 1.0, for each distinct value of {graphicsFamily,
\* presentFamily} of the selected device and no family twice: one record when the
\* families coincide, two when they differ.  graphicsQueue is queue 0 of
\* graphicsFamily and presentQueue queue 0 of presentFamily, the same queue when
\* the families coincide.
C13_QueueCreateRecords ==
    QueuesRequested =>
        LET device == host.devices[physicalDevice]
            indices == findQueueFamilies(device, device)
            g == indices.graphicsFamily
            p == indices.presentFamily
        IN /\ g # nullopt /\ p # nullopt
           /\ RequestedFamilies = {g, p}
           /\ Len(queueCreateInfos) = Cardinality({g, p})
           /\ Len(queueCreateInfos) = (IF g = p THEN 1 ELSE 2)
           /\ \A i \in 1..Len(queueCreateInfos) :
                 /\ queueCreateInfos[i].queueCount = 1
                 /\ queueCreateInfos[i].queuePriority = "1.0f"
           /\ (logicalDevice = "live" =>
                  /\ graphicsQueue = [queueFamilyIndex |-> g, queueIndex |-> 0]
                  /\ presentQueue = [queueFamilyIndex |-> p, queueIndex |-> 0]
                  /\ (g = p <=> graphicsQueue = presentQueue))

C13_Witness ==
    /\ logicalDevice = "live"
    /\ Len(queueCreateInfos) = 2
    /\ queueCreateInfos[1].queueFamilyIndex = presentQueue.queueFamilyIndex
    /\ queueCreateInfos[2].queueFamilyIndex = graphicsQueue.queueFamilyIndex
    /\ graphicsQueue.queueIndex = 0
    /\ presentQueue.queueIndex = 0
    /\ graphicsQueue # presentQueue

(* C14 *)

\* createInstance() has filled in its VkInstanceCreateInfo
InstanceRequested == instanceCreateInfo # NoInstanceCreateInfo

MessengerCalls == SelectSeq(calls, IsMessenger)

\* C14: validation is enabled iff the build does not define NDEBUG.  In a release
\* build the instance is requested with no layer, no chained messenger create-info
\* and without VK_EXT_debug_utils, no messenger is ever installed and cleanup()
\* issues no messenger destroy.  In a debug build the instance is requested with
\* the validation layer, the chained create-info and VK_EXT_debug_utils,
\* setupDebugMessenger() installs a messenger or fails bring-up, and cleanup()
\* issues at most one messenger destroy (none if
\* vkDestroyDebugUtilsMessengerEXT is not found).
C14_ValidationByBuild ==
    /\ (enableValidationLayers <=> ~NDEBUG)
    /\ (NDEBUG =>
           /\ (InstanceRequested =>
                  /\ instanceCreateInfo.enabledLayerNames = <<>>
                  /\ instanceCreateInfo.pNext = "nullptr"
                  /\ "VK_EXT_debug_utils" \notin Range(instanceCreateInfo.enabledExtensionNames))
           /\ debugMessenger = "uninit"
           /\ MessengerCalls = <<>>)
    /\ (~NDEBUG =>
           /\ (InstanceRequested =>
                  /\ instanceCreateInfo.enabledLayerNames = validationLayers
                  /\ instanceCreateInfo.pNext = "debugCreateInfo"
                  /\ "VK_EXT_debug_utils" \in Range(instanceCreateInfo.enabledExtensionNames))
           /\ (pc = "pickPhysicalDevice" =>
                  /\ debugMessenger = "live"
                  /\ Objects(MessengerCalls) = <<Object("debugMessenger")>>)
           /\ (RunSucceeded =>
                  /\ debugMessenger \in {"destroyed", "live"}
                  /\ Len(SelectSeq(MessengerCalls, IsDestroy)) =
                         (IF debugMessenger = "destroyed" THEN 1 ELSE 0)))

\* a release build has run from bring-up through cleanup()
C14_Witness ==
    /\ NDEBUG
    /\ RunSucceeded
    /\ instance = "destroyed"
    /\ instanceCreateInfo.enabledExtensionNames =
           host.glfwExtensions \o <<"VK_KHR_portability_enumeration">>

(* C15 *)

ValidationUnavailable == errorMessage = "Validation layers requested, but not available."

\* a debug build on a host that does not list the requested layer
LayerMissing == enableValidationLayers /\ ValidationLayer \notin host.layers

\* C15: in a debug build on a host without the requested validation layer,
\* bring-up ends in createInstance() with ValidationUnavailable before a
\* VkInstanceCreateInfo is handed to vkCreateInstance; no instance, surface,
\* messenger, logical device or swap chain is ever created; the message is written
\* to standard error and main() returns a non-zero code.
C15_ValidationUnavailable ==
    LayerMissing =>
        /\ pc \in {"initWindow", "createInstance", "exit"}
        /\ ~InstanceRequested
        /\ instance = "uninit"
        /\ surface = "uninit"
        /\ debugMessenger = "uninit"
        /\ logicalDevice = "uninit"
        /\ swapChain = "uninit"
        /\ swapChainImageViews = <<>>
        /\ \A i \in 1..Len(calls) : calls[i].obj \in {"glfw", "window"}
        /\ (pc = "exit" <=> ValidationUnavailable)
        /\ (pc = "exit" => exitCode = EXIT_FAILURE /\ exitCode # EXIT_SUCCESS)

\* the host lists another layer only, and main() has returned
C15_Witness ==
    /\ LayerMissing
    /\ host.layers # {}
    /\ pc = "exit"
    /\ ValidationUnavailable
    /\ exitCode = EXIT_FAILURE
    /\ window = "live"

(* C16 *)

\* C16: when glfwCreateWindow returns no window, initWindow() fails bring-up, so
\* that main() has returned with an error and neither createInstance() nor any
\* later step has run or is about to run.  The code's initWindow() does not look
\* at the window it gets: createInstance() runs and createSurface() passes the
\* null window on.
C16_WindowInitFailed ==
    window = "null" =>
        /\ pc = "exit"
        /\ errorMessage # ""
        /\ exitCode = EXIT_FAILURE
        /\ ~InstanceRequested
        /\ instance = "uninit"

(* C17 *)

\* the queue families of the device findQueueFamilies() is called with
SelectedFamilies == host.devices[physicalDevice].queueFamilies

GraphicsUpTo(k) == {i \in 0..k : SelectedFamilies[i + 1].graphics}
PresentUpTo(k) == {i \in 0..k : SelectedFamilies[i + 1].present}

\* the index at which the walk ends: the first one by which a graphics family and
\* a presentation family have both been seen, the last index if there is none
StopIndex ==
    LET n == Len(SelectedFamilies)
        both == {k \in 0..(n - 1) : GraphicsUpTo(k) # {} /\ PresentUpTo(k) # {}}
    IN IF both = {} THEN n - 1 ELSE CHOOSE k \in both : \A j \in both : k <= j

LastOf(S) == IF S = {} THEN nullopt ELSE CHOOSE i \in S : \A j \in S : j <= i

\* C17: findQueueFamilies() on the selected device walks the families in index
\* order and stops at the first index at which both fields are set; graphicsFamily
\* is the last graphics-capable index visited and presentFamily the last
\* presentation-capable index visited (empty if none was); the result is complete
\* iff some family has graphics capability and some family supports presentation.
\* pickPhysicalDevice() returns only with a complete result, and the queues are
\* taken from these two families.
C17_FindQueueFamilies ==
    physicalDevice # VK_NULL_HANDLE =>
        LET device == host.devices[physicalDevice]
            n == Len(SelectedFamilies)
            indices == findQueueFamilies(device, device)
        IN /\ indices.graphicsFamily = LastOf(GraphicsUpTo(StopIndex))
           /\ indices.presentFamily = LastOf(PresentUpTo(StopIndex))
           /\ (isComplete(indices) <=>
                  /\ \E i \in 1..n : SelectedFamilies[i].graphics
                  /\ \E i \in 1..n : SelectedFamilies[i].present)
           /\ (indices.graphicsFamily # nullopt =>
                  SelectedFamilies[indices.graphicsFamily + 1].graphics)
           /\ (indices.presentFamily # nullopt =>
                  SelectedFamilies[indices.presentFamily + 1].present)
           /\ (PickSucceeded => isComplete(indices))
           /\ (logicalDevice = "live" =>
                  /\ graphicsQueue.queueFamilyIndex = indices.graphicsFamily
                  /\ presentQueue.queueFamilyIndex = indices.presentFamily)

\* three families: graphicsFamily was overwritten at index 1, where the walk
\* stopped without visiting index 2
C17_Witness ==
    /\ logicalDevice = "live"
    /\ Len(SelectedFamilies) = 3
    /\ SelectedFamilies[1].graphics /\ ~SelectedFamilies[1].present
    /\ SelectedFamilies[2].graphics /\ SelectedFamilies[2].present
    /\ SelectedFamilies[3].graphics /\ SelectedFamilies[3].present
    /\ graphicsQueue.queueFamilyIndex = 1
    /\ presentQueue.queueFamilyIndex = 1

(* C18 *)

SomeViewLive == \E i \in 1..Len(swapChainImageViews) : swapChainImageViews[i].state = "live"

\* whenever an object is live, every object it was created from is live
OwnersLive ==
    /\ (surface = "live" => instance = "live" /\ window = "live")
    /\ (debugMessenger = "live" => instance = "live")
    /\ (logicalDevice = "live" => instance = "live")
    /\ (swapChain = "live" => logicalDevice = "live" /\ surface = "live")
    /\ (SomeViewLive => swapChain = "live" /\ logicalDevice = "live")

\* every object a call created was not live before, every object a call destroyed
\* was live
CallsOnValidObjects ==
    \A i \in 1..Len(calls) :
        IF IsCreate(calls[i]) THEN calls[i].was \in {"uninit", "null"}
        ELSE calls[i].was = "live"

\* the handles the next create or destroy call is given as its parents are live
\* (createSurface: instance and window; setupDebugMessenger: instance;
\* createLogicalDevice: the instance of the physical device; createSwapChain:
\* logical device and surface; createImageView: logical device and swap chain;
\* cleanup(): the instance or the logical device the object is destroyed on)
ParentsOfNextCallLive ==
    /\ (pc = "createSurface" => instance = "live" /\ window = "live")
    /\ (pc \in {"setupDebugMessenger", "pickPhysicalDevice", "createLogicalDevice"} =>
           instance = "live")
    /\ (pc = "createSwapChain" => logicalDevice = "live" /\ surface = "live")
    /\ (pc = "createImageView.loop" /\ viewIndex < Len(swapChainImageViews) =>
           logicalDevice = "live" /\ swapChain = "live")
    /\ (pc = "cleanup" /\ enableValidationLayers => instance = "live")
    /\ (pc = "cleanup.imageViews" /\ viewIndex < Len(swapChainImageViews) =>
           logicalDevice = "live")
    /\ (pc = "cleanup.swapChain" => logicalDevice = "live")
    /\ (pc = "cleanup.logicalDevice" => logicalDevice = "live")
    /\ (pc = "cleanup.surface" => instance = "live" /\ surface = "live")
    /\ (pc = "cleanup.instance" => instance = "live")
    /\ (pc = "cleanup.window" => window = "live")

\* C18: in every state of run(), whenever an object is live every object it was
\* created from is live, and no create or destroy call names a handle that has not
\* been created or has been destroyed.  In the code, after a failed
\* glfwCreateWindow createSurface() names the null window, and when
\* vkDestroyDebugUtilsMessengerEXT is not found cleanup() destroys the instance
\* with the messenger still live.
C18_OwnershipRespected ==
    /\ OwnersLive
    /\ CallsOnValidObjects
    /\ ParentsOfNextCallLive

(* C19 *)

\* createSwapChain() has called chooseSwapSurfaceFormat(): it stored the format, or
\* the process died in that call
SurfaceFormatChosen ==
    \/ swapChainImageFormat # "unset"
    \/ (pc = "crashed" /\ logicalDevice = "live")

\* C19: whenever createSwapChain() runs, the format list it passes to
\* chooseSwapSurfaceFormat() is non-empty, whatever the runtime returned at the
\* query in isDeviceSuitable() and at the query in createSwapChain().  The code
\* checks the first list only: with an empty second list availableFormats[0] is
\* read out of bounds.
C19_FormatsNonEmpty ==
    (pc = "createSwapChain" \/ SurfaceFormatChosen) => host.atCreation.formats # <<>>

====
